---- MODULE Spec2Model ----
(***************************************************************************)
(* A model of md_reader's Markdown viewer (src/src/viewer.py): the inline  *)
(* tokenizer tokenize_inline, the line-scanning renderer                   *)
(* render_markdown_raw, the mistune renderer, and the viewer's loop over   *)
(* the Markdown files of its folder, and its command save_to_folder; and   *)
(* of its storage helpers                                                  *)
(* (src/src/storage.py): pack_folder and unpack_file, the library file,    *)
(* flatten_path, and the launcher's list of saved archives.                *)
(*                                                                         *)
(* Text is a sequence of one-character strings.  Indices keep Python's     *)
(* zero-based convention: At(s, k) is s[k], Slice(s, a, b) is s[a:b].      *)
(***************************************************************************)
EXTENDS Integers, Sequences, FiniteSets, TLC

VARIABLES
    \* tokenize_inline, one loop iteration at a time
    line,            \* the argument
    i,               \* the scan position
    tokens,          \* the list being built
    pc,              \* "loop" | "done" | "error" ("idle" while rendering)
    \* render_markdown_raw, one line of the document at a time
    content,         \* the document text
    env,             \* base_folder, the files on disk, PIL_AVAILABLE
    widget,          \* the tk.Text: its state and what was inserted
    image_cache,     \* the viewer's list of image handles
    link_callbacks,  \* the module's table of hyperlink callbacks
    lines,           \* content.split("\n")
    n_done,          \* the number of lines the for loop has handled
    in_code_block,
    rpc,             \* "start" | "lines" | "done" ("idle" otherwise)
    \* MarkdownViewerApp.load_markdown_files, one file at a time
    mistune_available,  \* MISTUNE_AVAILABLE
    md_files,        \* what f.read() gives for each of md_files, in order
    tabs,            \* the text widget of each tab, as render_markdown left it
    faults,          \* for each tab, where mistune raised on its document
    apc,             \* "load" | "done" ("idle" otherwise)
    \* pack_folder, then unpack_file
    disk_files,      \* the regular files on disk: absolute path -> content
    folder_path,     \* pack_folder's argument
    extract_to,      \* unpack_file's argument
    archive,         \* the members of the zip file: name -> content
    ppc,             \* "start" | "packed" | "unpacked" ("idle" otherwise)
    \* the library file and the calls that read and write it
    library_file,    \* PATH_LIBRARY: missing, not JSON, or a JSON object
    default_library, \* the dict DEFAULT_LIBRARY_STRUCTURE
    existing,        \* the folders f for which Path(f).exists()
    lpc,             \* the last call: "start" | "added" | "cleaned" |
                     \* "removed" ("idle" otherwise)
    \* the launcher's list of saved archives
    storage_dir,     \* the entries of PATH_STORAGE
    all_saved_files, \* the entries the launcher lists
    spc,             \* "start" | "listed" ("idle" otherwise)
    \* flatten_path
    path_str,        \* the argument
    flat,            \* the outcome: ValueError, or the string returned
    fpc,             \* "call" | "done" ("idle" otherwise)
    \* the viewer's menu command "save to folder"
    self_folder,     \* self.folder of the MarkdownViewerApp
    save_call        \* the last call: what the dialog returned and how
                     \* copytree ended

tokVars == <<line, i, tokens, pc>>

renderVars == <<content, env, widget, image_cache, link_callbacks, lines,
                n_done, in_code_block, rpc>>

appVars == <<mistune_available, md_files, tabs, faults, apc>>

storageVars ==
    <<disk_files, folder_path, extract_to, archive, ppc,
      library_file, default_library, existing, lpc,
      storage_dir, all_saved_files, spc,
      path_str, flat, fpc,
      self_folder, save_call>>

vars == <<tokVars, renderVars, appVars, storageVars>>

\* A step of a storage helper changes the variables named in changed and
\* no other.
StorageFrame(changed) ==
    /\ IF "disk_files" \in changed THEN TRUE ELSE UNCHANGED disk_files
    /\ IF "folder_path" \in changed THEN TRUE ELSE UNCHANGED folder_path
    /\ IF "extract_to" \in changed THEN TRUE ELSE UNCHANGED extract_to
    /\ IF "archive" \in changed THEN TRUE ELSE UNCHANGED archive
    /\ IF "ppc" \in changed THEN TRUE ELSE UNCHANGED ppc
    /\ IF "library_file" \in changed THEN TRUE ELSE UNCHANGED library_file
    /\ IF "default_library" \in changed THEN TRUE ELSE UNCHANGED default_library
    /\ IF "existing" \in changed THEN TRUE ELSE UNCHANGED existing
    /\ IF "lpc" \in changed THEN TRUE ELSE UNCHANGED lpc
    /\ IF "storage_dir" \in changed THEN TRUE ELSE UNCHANGED storage_dir
    /\ IF "all_saved_files" \in changed THEN TRUE ELSE UNCHANGED all_saved_files
    /\ IF "spc" \in changed THEN TRUE ELSE UNCHANGED spc
    /\ IF "path_str" \in changed THEN TRUE ELSE UNCHANGED path_str
    /\ IF "flat" \in changed THEN TRUE ELSE UNCHANGED flat
    /\ IF "fpc" \in changed THEN TRUE ELSE UNCHANGED fpc
    /\ IF "self_folder" \in changed THEN TRUE
       ELSE UNCHANGED self_folder
    /\ IF "save_call" \in changed THEN TRUE ELSE UNCHANGED save_call
    /\ UNCHANGED <<tokVars, renderVars, appVars>>

(***************************************************************************)
(* Bounds of the model.                                                    *)
(***************************************************************************)
MaxLen == 6
MaxLines == 2

(***************************************************************************)
(* Python's str operations, as far as the viewer uses them.                *)
(***************************************************************************)
At(s, k) == s[k + 1]

Slice(s, a, b) ==
    LET hi == IF b > Len(s) THEN Len(s) ELSE b
    IN  IF a >= hi THEN <<>> ELSE SubSeq(s, a + 1, hi)

SliceFrom(s, a) == Slice(s, a, Len(s))

StartsWith(s, d, k) ==
    /\ k + Len(d) <= Len(s)
    /\ SubSeq(s, k + 1, k + Len(d)) = d

SetMin(S) == CHOOSE x \in S : \A y \in S : x <= y

Find(s, d, from) ==
    LET hits == {j \in from..(Len(s) - Len(d)) : StartsWith(s, d, j)}
    IN  IF hits = {} THEN -1 ELSE SetMin(hits)

(***************************************************************************)
(* tokenize_inline.                                                        *)
(***************************************************************************)
TokenType == {"NORMAL", "ITALIC", "BOLD", "BOLD_ITALIC", "INLINE_CODE"}

\* A TLA+ string cannot hold the backtick character: it is written by name.
BQ == "BACKTICK"

Backtick == <<BQ>>
Star3 == <<"*", "*", "*">>
Star2 == <<"*", "*">>
Star1 == <<"*">>

\* One delimiter rule of the loop body: "if line.startswith(d, i): end =
\* line.find(d, i + len(d)); if end != -1: append; i = end + len(d); continue".
\* hit is FALSE when the rule falls through to the next one.
TryDelim_CloseShort(l, k, d, type) ==
    LET end == Find(l, d, k + Len(d))
    IN  IF StartsWith(l, d, k) /\ end # -1
        THEN [hit |-> TRUE, type |-> type,
              text |-> Slice(l, k + Len(d), end), next |-> end + 1]
        ELSE [hit |-> FALSE, type |-> type, text |-> <<>>, next |-> k]

TryDelim_TextFromOpener(l, k, d, type) ==
    LET end == Find(l, d, k + Len(d))
    IN  IF StartsWith(l, d, k) /\ end # -1
        THEN [hit |-> TRUE, type |-> type,
              text |-> Slice(l, k + 1, end), next |-> end + Len(d)]
        ELSE [hit |-> FALSE, type |-> type, text |-> <<>>, next |-> k]

TryDelim(l, k, d, type) ==
    LET end == Find(l, d, k + Len(d))
    IN  IF StartsWith(l, d, k) /\ end # -1
        THEN [hit |-> TRUE, type |-> type,
              text |-> Slice(l, k + Len(d), end), next |-> end + Len(d)]
        ELSE [hit |-> FALSE, type |-> type, text |-> <<>>, next |-> k]

\* "tokens.append((TokenType.NORMAL, line[i])); i += 1"
NormalChar(l, k) ==
    [hit |-> TRUE, type |-> "NORMAL", text |-> <<At(l, k)>>, next |-> k + 1]

\* The body of the while loop: the four rules in the order of the code, then
\* the normal character.
TokStep_ShortFirst(l, k) ==
    LET code == TryDelim(l, k, Backtick, "INLINE_CODE")
        bi   == TryDelim(l, k, Star3, "BOLD_ITALIC")
        b    == TryDelim(l, k, Star2, "BOLD")
        it   == TryDelim(l, k, Star1, "ITALIC")
    IN  IF code.hit THEN code
        ELSE IF b.hit THEN b
        ELSE IF bi.hit THEN bi
        ELSE IF it.hit THEN it
        ELSE NormalChar(l, k)

TokStep(l, k) ==
    LET code == TryDelim(l, k, Backtick, "INLINE_CODE")
        bi   == TryDelim(l, k, Star3, "BOLD_ITALIC")
        b    == TryDelim(l, k, Star2, "BOLD")
        it   == TryDelim(l, k, Star1, "ITALIC")
    IN  IF code.hit THEN code
        ELSE IF bi.hit THEN bi
        ELSE IF b.hit THEN b
        ELSE IF it.hit THEN it
        ELSE NormalChar(l, k)

\* "while i < n"
LoopCond_Short(l, k) == k < Len(l) - 1

LoopCond(l, k) == k < Len(l)

Token(r) == [type |-> r.type, text |-> r.text]

\* The function as a whole, for its callers.
RECURSIVE TokenizeFrom(_, _)
TokenizeFrom(l, k) ==
    IF ~LoopCond(l, k) THEN <<>>
    ELSE LET r == TokStep(l, k)
         IN  <<Token(r)>> \o TokenizeFrom(l, r.next)

tokenize_inline(l) == TokenizeFrom(l, 0)

(***************************************************************************)
(* The lines the tokenizer is run on: every line of at most MaxLen         *)
(* characters over the two delimiter characters and a letter, and the      *)
(* lines the documentation gives as examples.                              *)
(***************************************************************************)
TokAlphabet == {BQ, "*", "a"}

SeqsUpTo(S, n) == UNION {[1..m -> S] : m \in 0..n}

LineTripleX == <<"*", "*", "*", "x", "*", "*", "*">>
LineBoldThenItalic == <<"*", "*", "a", "*", "*", "b", "*", "c", "*">>
LineUnterminated ==
    <<"*", "u", "n", "t", "e", "r", "m", "i", "n", "a", "t", "e", "d">>

ExampleLines == {LineTripleX, LineBoldThenItalic, LineUnterminated}

TokLines == SeqsUpTo(TokAlphabet, MaxLen) \cup ExampleLines

\* The storage helpers' variables while they do not run; running names the
\* helper whose variables the initial condition sets itself.
StorageIdle(running) ==
    /\ IF running = "pack" THEN TRUE
       ELSE /\ disk_files = [x \in {} |-> ""]
            /\ folder_path = <<>>
            /\ extract_to = <<>>
            /\ archive = [x \in {} |-> ""]
            /\ ppc = "idle"
    /\ IF running \in {"library", "save"} THEN TRUE
       ELSE /\ library_file = [kind |-> "missing"]
            /\ default_library = [has_folders |-> TRUE, folders |-> <<>>]
            /\ existing = {}
            /\ lpc = "idle"
    /\ IF running = "list" THEN TRUE
       ELSE /\ storage_dir = {}
            /\ all_saved_files = {}
            /\ spc = "idle"
    /\ IF running = "flatten" THEN TRUE
       ELSE /\ path_str = <<>>
            /\ flat = [raised |-> FALSE, value |-> <<>>]
            /\ fpc = "idle"
    /\ IF running = "save" THEN TRUE
       ELSE /\ self_folder = ""
            /\ save_call = [target_dir |-> "", copytree |-> "idle"]

\* The viewer's variables while no folder is loaded.
AppIdle ==
    /\ mistune_available = FALSE
    /\ md_files = <<>>
    /\ tabs = <<>>
    /\ faults = <<>>
    /\ apc = "idle"

\* The renderer's variables while only the tokenizer runs.
RenderIdle ==
    /\ content = <<>>
    /\ env = [base |-> <<>>, fs |-> [x \in {} |-> "absent"], pil |-> FALSE]
    /\ widget = [state |-> "normal", segs |-> <<>>]
    /\ image_cache = <<>>
    /\ link_callbacks = [x \in {} |-> <<>>]
    /\ lines = <<>>
    /\ n_done = 0
    /\ in_code_block = FALSE
    /\ rpc = "idle"

TokInit ==
    /\ line \in TokLines
    /\ i = 0
    /\ tokens = <<>>
    /\ pc = "loop"
    /\ RenderIdle
    /\ AppIdle
    /\ StorageIdle("none")

\* One iteration of the while loop.  line[i] raises IndexError outside the
\* line.
TokIter ==
    /\ pc = "loop"
    /\ LoopCond(line, i)
    /\ IF i < Len(line)
       THEN LET r == TokStep(line, i)
            IN  /\ tokens' = Append(tokens, Token(r))
                /\ i' = r.next
                /\ pc' = pc
       ELSE /\ pc' = "error"
            /\ UNCHANGED <<tokens, i>>
    /\ UNCHANGED <<line, renderVars, appVars, storageVars>>

\* "return tokens"
TokReturn ==
    /\ pc = "loop"
    /\ ~LoopCond(line, i)
    /\ pc' = "done"
    /\ UNCHANGED <<line, i, tokens, renderVars, appVars, storageVars>>

TokNext == TokIter \/ TokReturn

TokSpec == TokInit /\ [][TokNext]_vars

\* The loop has no suspension point: an iteration that can run does run.
TokLive == TokSpec /\ WF_vars(TokNext)

(***************************************************************************)
(* The tk.Text widget.  Its content is the list of insertions made since   *)
(* the last delete("1.0", END): a run of text with the tags it was         *)
(* inserted with, or an embedded image.  link holds the n of the           *)
(* hyperlink_<n> tags added to the run.  A fixed piece of a message,       *)
(* such as "[Image not found: ", stands as one element of a text.          *)
(***************************************************************************)
NoImage == [path |-> <<>>, decoder |-> "none"]

TextSeg(text, tags) ==
    [kind |-> "text", text |-> text, tags |-> tags, link |-> {}, image |-> NoImage]

ImageSeg(img) ==
    [kind |-> "image", text |-> <<>>, tags |-> {}, link |-> {}, image |-> img]

\* text_widget.insert(tk.END, text, tags): inserting no character changes
\* nothing.
Insert(segs, text, tags) ==
    IF text = <<>> THEN segs ELSE Append(segs, TextSeg(text, tags))

\* The tags of the if/elif chain that inserts one token.
TokenTags(type) ==
    CASE type = "NORMAL" -> {}
      [] type = "ITALIC" -> {"italic"}
      [] type = "BOLD" -> {"bold"}
      [] type = "BOLD_ITALIC" -> {"bold", "italic"}
      [] type = "INLINE_CODE" -> {"inlinecode"}

\* "for ttype, text in tokenize_inline(...): text_widget.insert(...)"
RECURSIVE InsertTokens(_, _)
InsertTokens(segs, toks) ==
    IF toks = <<>> THEN segs
    ELSE InsertTokens(Insert(segs, Head(toks).text, TokenTags(Head(toks).type)),
                      Tail(toks))

(***************************************************************************)
(* str.strip, str.split, os.path.                                          *)
(***************************************************************************)
IsSpace(c) == c \in {" ", "\t"}

RECURSIVE LStrip(_)
LStrip(s) ==
    IF s # <<>> /\ IsSpace(Head(s)) THEN LStrip(Tail(s)) ELSE s

RECURSIVE RStrip(_)
RStrip(s) ==
    IF s # <<>> /\ IsSpace(s[Len(s)]) THEN RStrip(SubSeq(s, 1, Len(s) - 1)) ELSE s

Strip(s) == RStrip(LStrip(s))

\* s.split(sep) for a one-character sep: never empty, "" gives [""].
RECURSIVE Split(_, _)
Split(s, sep) ==
    LET at == Find(s, <<sep>>, 0)
    IN  IF at = -1 THEN <<s>>
        ELSE <<Slice(s, 0, at)>> \o Split(SliceFrom(s, at + 1), sep)

RECURSIVE Join(_, _)
Join(parts, sep) ==
    IF parts = <<>> THEN <<>>
    ELSE IF Len(parts) = 1 THEN parts[1]
    ELSE parts[1] \o <<sep>> \o Join(Tail(parts), sep)

\* os.path.isabs (posix)
IsAbs(path) == StartsWith(path, <<"/">>, 0)

\* os.path.join(a, b) (posix)
PathJoin(a, b) ==
    IF IsAbs(b) THEN b
    ELSE IF a = <<>> \/ a[Len(a)] = "/" THEN a \o b
    ELSE a \o <<"/">> \o b

\* The component loop of posixpath.normpath.
RECURSIVE NormComps(_, _, _)
NormComps(comps, acc, rooted) ==
    IF comps = <<>> THEN acc
    ELSE LET c == Head(comps)
             rest == Tail(comps)
         IN  IF c = <<>> \/ c = <<".">> THEN NormComps(rest, acc, rooted)
             ELSE IF c # <<".", ".">>
                     \/ (~rooted /\ acc = <<>>)
                     \/ (acc # <<>> /\ acc[Len(acc)] = <<".", ".">>)
                  THEN NormComps(rest, Append(acc, c), rooted)
             ELSE IF acc # <<>>
                  THEN NormComps(rest, SubSeq(acc, 1, Len(acc) - 1), rooted)
             ELSE NormComps(rest, acc, rooted)

\* posixpath.normpath
NormPath(path) ==
    LET slashes == IF ~IsAbs(path) THEN 0
                   ELSE IF StartsWith(path, <<"/", "/">>, 0)
                           /\ ~StartsWith(path, <<"/", "/", "/">>, 0) THEN 2
                   ELSE 1
        root == IF slashes = 0 THEN <<>> ELSE [x \in 1..slashes |-> "/"]
        out == root \o Join(NormComps(Split(path, "/"), <<>>, slashes > 0), "/")
    IN  IF path = <<>> \/ out = <<>> THEN <<".">> ELSE out

\* "if not os.path.isabs(img_path): img_path = os.path.join(base_folder,
\* img_path); img_path = os.path.abspath(img_path)".  base_folder is the
\* viewer's folder, which MarkdownViewerApp.__init__ made absolute.
ResolveImagePath(base, path) ==
    NormPath(IF ~IsAbs(path) THEN PathJoin(base, path) ELSE path)

(***************************************************************************)
(* The two regular expressions of render_markdown_raw.                     *)
(***************************************************************************)
NoMatch == [found |-> FALSE, start |-> 0, end |-> 0, text |-> <<>>, url |-> <<>>]

\* re.match(r"!\[.*?\]\((.*?)\)", s): the lazy groups stop at the first "]("
\* after "![" and at the first ")" after that.
ImageMatch(s) ==
    LET mid == Find(s, <<"]", "(">>, 2)
        close == Find(s, <<")">>, mid + 2)
    IN  IF StartsWith(s, <<"!", "[">>, 0) /\ mid # -1 /\ close # -1
        THEN [found |-> TRUE, start |-> 0, end |-> close + 1,
              text |-> Slice(s, 2, mid), url |-> Slice(s, mid + 2, close)]
        ELSE NoMatch

\* A match of r"\[(.*?)\]\((.*?)\)" that starts at position k.
LinkMatchAt(s, k) ==
    LET mid == Find(s, <<"]", "(">>, k + 1)
        close == Find(s, <<")">>, mid + 2)
    IN  IF StartsWith(s, <<"[">>, k) /\ mid # -1 /\ close # -1
        THEN [found |-> TRUE, start |-> k, end |-> close + 1,
              text |-> Slice(s, k + 1, mid), url |-> Slice(s, mid + 2, close)]
        ELSE NoMatch

\* The next match re.finditer yields at or after position from.
NextLink(s, from) ==
    LET starts == {k \in from..(Len(s) - 1) : LinkMatchAt(s, k).found}
    IN  IF starts = {} THEN NoMatch ELSE LinkMatchAt(s, SetMin(starts))

(***************************************************************************)
(* render_markdown_raw: the body of "for line in lines".  st holds what    *)
(* the body reads and writes: segs (the widget's content), in_code_block,  *)
(* image_cache and link_callbacks.                                         *)
(***************************************************************************)
Fence == <<BQ, BQ, BQ>>

\* What tk.PhotoImage and Pillow make of the file at a path.
FileKinds == {"absent", "tk", "pil", "undecodable"}

FileKind(e, path) == IF path \in DOMAIN e.fs THEN e.fs[path] ELSE "absent"

\* The two decode attempts; "none" when both fail.
Decoder_PillowUnchecked(e, path) ==
    IF FileKind(e, path) = "tk" THEN "tk"
    ELSE IF FileKind(e, path) = "pil" THEN "pil"
    ELSE "none"

Decoder(e, path) ==
    IF FileKind(e, path) = "tk" THEN "tk"
    ELSE IF e.pil /\ FileKind(e, path) = "pil" THEN "pil"
    ELSE "none"

\* "stripped.startswith("```")": toggle and emit a newline.
RenderFence_OpenOnly(st) ==
    [st EXCEPT !.in_code_block = TRUE,
               !.segs = Insert(st.segs, <<"\n">>, {"codeblock"})]

RenderFence(st) ==
    [st EXCEPT !.in_code_block = ~st.in_code_block,
               !.segs = Insert(st.segs, <<"\n">>, {"codeblock"})]

\* "if in_code_block": the line as it is.
RenderCodeLine_Stripped(st, l) ==
    [st EXCEPT !.segs = Insert(st.segs, Strip(l) \o <<"\n">>, {"codeblock"})]

RenderCodeLine(st, l) ==
    [st EXCEPT !.segs = Insert(st.segs, l \o <<"\n">>, {"codeblock"})]

\* The image branch.
RenderImage(st, e, url) ==
    LET img_path == ResolveImagePath(e.base, url)
        dec == Decoder(e, img_path)
        img == [path |-> img_path, decoder |-> dec]
        shown ==
            IF FileKind(e, img_path) = "absent"
            THEN [st EXCEPT !.segs = Insert(st.segs,
                     <<"[Image not found: ">> \o img_path \o <<"]", "\n">>, {})]
            ELSE IF dec = "none"
            THEN [st EXCEPT !.segs = Insert(st.segs,
                     <<"[Unsupported image format: ">> \o img_path \o <<"]", "\n">>, {})]
            ELSE [st EXCEPT !.image_cache = Append(st.image_cache, img),
                            !.segs = Append(st.segs, ImageSeg(img))]
    IN  [shown EXCEPT !.segs = Insert(shown.segs, <<"\n">>, {})]

\* The heading chain: 0 when the line is no heading.
HeadingLevel_HashOnly(s) ==
    IF StartsWith(s, <<"#">>, 0) THEN 1
    ELSE IF StartsWith(s, <<"#", "#">>, 0) THEN 2
    ELSE IF StartsWith(s, <<"#", "#", "#">>, 0) THEN 3
    ELSE 0

HeadingLevel(s) ==
    IF StartsWith(s, <<"#", " ">>, 0) THEN 1
    ELSE IF StartsWith(s, <<"#", "#", " ">>, 0) THEN 2
    ELSE IF StartsWith(s, <<"#", "#", "#", " ">>, 0) THEN 3
    ELSE 0

HeadingTag(level) == IF level = 1 THEN "h1" ELSE IF level = 2 THEN "h2" ELSE "h3"

\* "text_widget.insert(tk.END, stripped[2:] + "\n", "h1")" and the like.
RenderHeading(st, s, level) ==
    [st EXCEPT !.segs = Insert(st.segs, SliceFrom(s, level + 1) \o <<"\n">>,
                               {HeadingTag(level)})]

\* insert_hyperlink after the insertion of the link text: the run gets the
\* tag hyperlink_<len(callback_store)> (an empty run has nothing to tag) and
\* the table gets the callback, kept here as the url it opens.
\* link_callbacks is a dict from the tag name to the callback: its keys
\* are the n of hyperlink_<n>, its values the url the callback opens.
DictLen(d) == Cardinality(DOMAIN d)

DictPut(d, key, value) ==
    [x \in DOMAIN d \cup {key} |-> IF x = key THEN value ELSE d[x]]

InsertHyperlink_FixedTag(st, text, url) ==
    LET n == 0
        run == [TextSeg(text, {"hyperlink"}) EXCEPT !.link = {n}]
    IN  [st EXCEPT !.segs = IF text = <<>> THEN st.segs ELSE Append(st.segs, run),
                   !.link_callbacks = DictPut(st.link_callbacks, n, url)]

InsertHyperlink(st, text, url) ==
    LET n == DictLen(st.link_callbacks)
        run == [TextSeg(text, {"hyperlink"}) EXCEPT !.link = {n}]
    IN  [st EXCEPT !.segs = IF text = <<>> THEN st.segs ELSE Append(st.segs, run),
                   !.link_callbacks = DictPut(st.link_callbacks, n, url)]

\* The link loop and the text after the last link, from position pos on.
RECURSIVE RenderParagraphFrom(_, _, _)
RenderParagraphFrom(st, l, pos) ==
    LET m == NextLink(l, pos)
    IN  IF m.found
        THEN LET before == [st EXCEPT !.segs =
                     InsertTokens(st.segs, tokenize_inline(Slice(l, pos, m.start)))]
             IN  RenderParagraphFrom(InsertHyperlink(before, m.text, m.url), l, m.end)
        ELSE [st EXCEPT !.segs =
                 Insert(InsertTokens(st.segs, tokenize_inline(SliceFrom(l, pos))),
                        <<"\n">>, {})]

\* One pass of the for loop.
RenderLine(st, e, l) ==
    LET stripped == Strip(l)
        img == ImageMatch(stripped)
        level == HeadingLevel(stripped)
    IN  IF StartsWith(stripped, Fence, 0) THEN RenderFence(st)
        ELSE IF st.in_code_block THEN RenderCodeLine(st, l)
        ELSE IF img.found THEN RenderImage(st, e, img.url)
        ELSE IF level # 0 THEN RenderHeading(st, stripped, level)
        ELSE RenderParagraphFrom(st, l, 0)

(***************************************************************************)
(* render_markdown_raw as a state machine.  The documents are the texts of *)
(* at most MaxLines lines taken from RenderLines, which holds a line of    *)
(* every kind the for loop tells apart.                                    *)
(***************************************************************************)
RenderLines == {
    <<>>,
    <<" ", "a", " ">>,
    <<BQ, BQ, BQ>>,
    <<" ", BQ, BQ, BQ, "a">>,
    <<"*", "*", "a", "*", "*">>,
    <<"#", " ", "*", "a", "*">>,
    <<"#", "#", " ", "a">>,
    <<" ", "#", "#", "#", " ", "a">>,
    <<"#">>,
    <<"#", "#", "a">>,
    <<"#", "#", "#">>,
    <<"!", "[", "a", "]", "(", ".", "/", "p", ")">>,
    <<" ", "!", "[", "]", "(", "/", "q", ")", " ">>,
    <<"a", "[", "b", "]", "(", "u", ")", "*", "a", "*">>,
    <<"[", "a", "]", "(", "u", ")", " ", "[", "b", "]", "(", "v", ")">> }

BaseFolder == <<"/", "d">>

\* The paths the image lines of a document resolve to.
ImagePaths(doc) ==
    LET ls == Split(doc, "\n")
    IN  {ResolveImagePath(BaseFolder, ImageMatch(Strip(ls[j])).url) :
            j \in {x \in 1..Len(ls) : ImageMatch(Strip(ls[x])).found}}

\* The environments a document is rendered in: any kind of file at each
\* path it names (a path it does not name is never looked at), with and
\* without Pillow.
Envs(doc) ==
    {[base |-> BaseFolder, fs |-> f, pil |-> p] :
        f \in [ImagePaths(doc) -> FileKinds], p \in BOOLEAN}

\* The documented example of a fenced block: ```, **a**, ```.
DocFencedBold ==
    <<BQ, BQ, BQ, "\n", "*", "*", "a", "*", "*", "\n", BQ, BQ, BQ>>

\* The documented example of two links on a line: [a](u1) mid [b](u2).
DocTwoLinks ==
    <<"[", "a", "]", "(", "u", "1", ")", " ", "m", "i", "d", " ",
      "[", "b", "]", "(", "u", "2", ")">>

Docs ==
    {Join(ls, "\n") : ls \in UNION {[1..m -> RenderLines] : m \in 1..MaxLines}}
        \cup {DocFencedBold, DocTwoLinks}

\* What the documents rendered before this one left in the two stores: the
\* viewer's image_cache and the module's link_callbacks are shared by all
\* documents.
PriorStores ==
    { [images |-> <<>>, links |-> [x \in {} |-> <<>>]],
      [images |-> <<[path |-> <<"/", "d", "/", "o">>, decoder |-> "tk"]>>,
       links |-> [x \in {0} |-> <<"w">>]] }

TokIdle ==
    /\ line = <<>>
    /\ i = 0
    /\ tokens = <<>>
    /\ pc = "idle"

RenderInit ==
    /\ content \in Docs
    /\ env \in Envs(content)
    /\ \E prior \in PriorStores :
           /\ image_cache = prior.images
           /\ link_callbacks = prior.links
    /\ widget = [state |-> "normal", segs |-> <<>>]
    /\ lines = <<>>
    /\ n_done = 0
    /\ in_code_block = FALSE
    /\ rpc = "start"
    /\ TokIdle
    /\ AppIdle
    /\ StorageIdle("none")

\* "text_widget.config(state="normal"); text_widget.delete("1.0", tk.END);
\* lines = content.split("\n"); in_code_block = False"
RawStart ==
    /\ rpc = "start"
    /\ widget' = [state |-> "normal", segs |-> <<>>]
    /\ lines' = Split(content, "\n")
    /\ in_code_block' = FALSE
    /\ n_done' = 0
    /\ rpc' = "lines"
    /\ UNCHANGED <<content, env, image_cache, link_callbacks, tokVars, appVars,
                   storageVars>>

LoopState ==
    [segs |-> widget.segs, in_code_block |-> in_code_block,
     image_cache |-> image_cache, link_callbacks |-> link_callbacks]

\* One pass of "for line in lines".
RawLine ==
    /\ rpc = "lines"
    /\ n_done < Len(lines)
    /\ LET st == RenderLine(LoopState, env, lines[n_done + 1])
       IN  /\ widget' = [widget EXCEPT !.segs = st.segs]
           /\ in_code_block' = st.in_code_block
           /\ image_cache' = st.image_cache
           /\ link_callbacks' = st.link_callbacks
    /\ n_done' = n_done + 1
    /\ UNCHANGED <<content, env, lines, rpc, tokVars, appVars, storageVars>>

\* "text_widget.config(state="disabled")"
RawEnd ==
    /\ rpc = "lines"
    /\ n_done = Len(lines)
    /\ widget' = [widget EXCEPT !.state = "disabled"]
    /\ rpc' = "done"
    /\ UNCHANGED <<content, env, image_cache, link_callbacks, lines, n_done,
                   in_code_block, tokVars, appVars, storageVars>>

RenderNext == RawStart \/ RawLine \/ RawEnd

RenderSpec == RenderInit /\ [][RenderNext]_vars

(***************************************************************************)
(* render_markdown_with_mistune.  A node of the tree mistune's "ast"       *)
(* renderer returns is a record; visit reads its type, text, level, link,  *)
(* src and children.                                                       *)
(***************************************************************************)
Node(type) ==
    [type |-> type, text |-> <<>>, level |-> 1, link |-> <<>>, src |-> <<>>,
     children |-> <<>>]

MdNode(type, children) == [Node(type) EXCEPT !.children = children]
MdText(text) == [Node("text") EXCEPT !.text = text]
MdLink(url, children) == [MdNode("link", children) EXCEPT !.link = url]
MdImage(src) == [Node("image") EXCEPT !.src = src]

\* text_widget.tag_add(tag, start, end) with start taken before and end
\* after some insertions: the runs inserted in between get the tag.
TagAdd(segs, start, tag) ==
    [k \in 1..Len(segs) |->
        IF k > start THEN [segs[k] EXCEPT !.tags = @ \cup {tag}] ELSE segs[k]]

\* insert_hyperlink(text_widget, start, end, url, link_callbacks)
InsertHyperlinkRange(st, start, url) ==
    LET n == DictLen(st.link_callbacks)
    IN  [st EXCEPT !.segs = [k \in 1..Len(st.segs) |->
                                IF k > start
                                THEN [st.segs[k] EXCEPT !.link = @ \cup {n}]
                                ELSE st.segs[k]],
                   !.link_callbacks = DictPut(st.link_callbacks, n, url)]

RECURSIVE visit(_, _, _)
RECURSIVE VisitChildren(_, _, _)
RECURSIVE VisitItems(_, _, _)

\* "for child in node.get("children", []): visit(child)"
VisitChildren(st, e, children) ==
    IF children = <<>> THEN st
    ELSE VisitChildren(visit(st, e, Head(children)), e, Tail(children))

\* "for item in node.get("children", [])" of a list
VisitItems(st, e, items) ==
    IF items = <<>> THEN st
    ELSE LET dash == [st EXCEPT !.segs = Insert(st.segs, <<"-", " ">>, {})]
             body == VisitChildren(dash, e, Head(items).children)
             item == [body EXCEPT !.segs = Insert(body.segs, <<"\n">>, {})]
         IN  VisitItems(item, e, Tail(items))

visit(st, e, node) ==
    LET start == Len(st.segs)
        inner == VisitChildren(st, e, node.children)
    IN  CASE node.type = "text" ->
                 [st EXCEPT !.segs = Insert(st.segs, node.text, {})]
          [] node.type = "heading" ->
                 [inner EXCEPT !.segs =
                     Insert(TagAdd(inner.segs, start, HeadingTag(node.level)),
                            <<"\n">>, {})]
          [] node.type = "paragraph" ->
                 [inner EXCEPT !.segs = Insert(inner.segs, <<"\n">>, {})]
          [] node.type = "strong" ->
                 [inner EXCEPT !.segs = TagAdd(inner.segs, start, "bold")]
          [] node.type = "emphasis" ->
                 [inner EXCEPT !.segs = TagAdd(inner.segs, start, "italic")]
          [] node.type = "codespan" ->
                 [st EXCEPT !.segs = Insert(st.segs, node.text, {"inlinecode"})]
          [] node.type = "code" ->
                 [st EXCEPT !.segs =
                     Insert(st.segs, node.text \o <<"\n">>, {"codeblock"})]
          [] node.type = "link" ->
                 InsertHyperlinkRange(
                     [inner EXCEPT !.segs = TagAdd(inner.segs, start, "hyperlink")],
                     start, node.link)
          [] node.type = "image" -> RenderImage(st, e, node.src)
          [] node.type = "list" -> VisitItems(st, e, node.children)
          [] OTHER -> inner

\* Where mistune raises on a document: nowhere, in create_markdown or
\* md(content), or in visit at the at-th node of the tree.
NoFault == [kind |-> "none", at |-> 0]

Faults(ast) ==
    {NoFault, [kind |-> "parse", at |-> 0]}
        \cup {[kind |-> "visit", at |-> k] : k \in 1..Len(ast)}

StoreState(segs, cache, callbacks) ==
    [segs |-> segs, in_code_block |-> FALSE, image_cache |-> cache,
     link_callbacks |-> callbacks]

Rendered(state, st) ==
    [widget |-> [state |-> state, segs |-> st.segs],
     image_cache |-> st.image_cache, link_callbacks |-> st.link_callbacks]

\* The try block up to the exception, and "except Exception: pass", after
\* which the function returns.  An exception in the parser leaves the
\* widget as it was; one in visit leaves it in the state "normal" with what
\* the nodes before it inserted.
render_markdown_with_mistune(w, ast, e, cache, callbacks, fault) ==
    LET old == StoreState(w.segs, cache, callbacks)
        cleared == StoreState(<<>>, cache, callbacks)
    IN  CASE fault.kind = "parse" -> Rendered(w.state, old)
          [] fault.kind = "visit" ->
                 Rendered("normal",
                          VisitChildren(cleared, e, SubSeq(ast, 1, fault.at - 1)))
          [] OTHER -> Rendered("disabled", VisitChildren(cleared, e, ast))

\* render_markdown_raw as one call: the for loop over content.split("\n").
RECURSIVE RenderLinesFrom(_, _, _)
RenderLinesFrom(st, e, ls) ==
    IF ls = <<>> THEN st
    ELSE RenderLinesFrom(RenderLine(st, e, Head(ls)), e, Tail(ls))

render_markdown_raw(w, doc, e, cache, callbacks) ==
    Rendered("disabled",
             RenderLinesFrom(StoreState(<<>>, cache, callbacks), e, Split(doc, "\n")))

\* render_markdown: mistune when it could be imported, else the raw
\* renderer.
render_markdown(w, doc, ast, e, cache, callbacks, available, fault) ==
    IF available
    THEN render_markdown_with_mistune(w, ast, e, cache, callbacks, fault)
    ELSE render_markdown_raw(w, doc, e, cache, callbacks)

(***************************************************************************)
(* MarkdownViewerApp.load_markdown_files: one tab with a new tk.Text per   *)
(* Markdown file of the folder, all rendered with the viewer's one         *)
(* image_cache and the module's one link_callbacks.                        *)
(***************************************************************************)
MaxDocs == 2

\* The files of the folder: what f.read() gives, and the tree md(content)
\* is for it.  A plain paragraph, a heading, emphasis, a link, an image, a
\* list.
AppFiles ==
    {[content |-> <<"a">>,
      ast |-> <<MdNode("paragraph", <<MdText(<<"a">>)>>)>>],
     [content |-> <<"#", " ", "a">>,
      ast |-> <<MdNode("heading", <<MdText(<<"a">>)>>)>>],
     [content |-> <<"*", "a", "*">>,
      ast |-> <<MdNode("paragraph", <<MdNode("emphasis", <<MdText(<<"a">>)>>)>>)>>],
     [content |-> <<"[", "a", "]", "(", "u", ")">>,
      ast |-> <<MdNode("paragraph", <<MdLink(<<"u">>, <<MdText(<<"a">>)>>)>>)>>],
     [content |-> <<"!", "[", "]", "(", ".", "/", "p", ")">>,
      ast |-> <<MdNode("paragraph", <<MdImage(<<".", "/", "p">>)>>)>>],
     [content |-> <<"-", " ", "a">>,
      ast |-> <<MdNode("list",
                  <<MdNode("list_item",
                      <<MdNode("block_text", <<MdText(<<"a">>)>>)>>)>>)>>]}

AppDocs == {f.content : f \in AppFiles}

\* md(content)
mistune_md(doc) == (CHOOSE f \in AppFiles : f.content = doc).ast

\* "text_widget = tk.Text(frame, wrap="word")"
NewText == [state |-> "normal", segs |-> <<>>]

AppInit ==
    /\ mistune_available \in BOOLEAN
    /\ md_files \in UNION {[1..m -> AppDocs] : m \in 1..MaxDocs}
    /\ env \in Envs(Join(md_files, "\n"))
    /\ tabs = <<>>
    /\ faults = <<>>
    /\ apc = "load"
    /\ image_cache = <<>>
    /\ link_callbacks = [x \in {} |-> <<>>]
    /\ content = <<>>
    /\ widget = [state |-> "normal", segs |-> <<>>]
    /\ lines = <<>>
    /\ n_done = 0
    /\ in_code_block = FALSE
    /\ rpc = "idle"
    /\ TokIdle
    /\ StorageIdle("none")

\* One pass of "for md_path in md_files".
LoadTab ==
    /\ apc = "load"
    /\ Len(tabs) < Len(md_files)
    /\ LET doc == md_files[Len(tabs) + 1]
           ast == mistune_md(doc)
       IN  \E fault \in IF mistune_available THEN Faults(ast) ELSE {NoFault} :
               LET r == render_markdown(NewText, doc, ast, env, image_cache,
                                        link_callbacks, mistune_available, fault)
               IN  /\ tabs' = Append(tabs, r.widget)
                   /\ faults' = Append(faults, fault)
                   /\ image_cache' = r.image_cache
                   /\ link_callbacks' = r.link_callbacks
    /\ UNCHANGED <<mistune_available, md_files, apc, env, content, widget,
                   lines, n_done, in_code_block, rpc, tokVars, storageVars>>

\* The loop is over.
LoadDone ==
    /\ apc = "load"
    /\ Len(tabs) = Len(md_files)
    /\ apc' = "done"
    /\ UNCHANGED <<mistune_available, md_files, tabs, faults, renderVars,
                   tokVars, storageVars>>

AppNext == LoadTab \/ LoadDone

AppSpec == AppInit /\ [][AppNext]_vars

(***************************************************************************)
(* render_markdown called again on a widget that already shows a document: *)
(* the widget, the image cache and link_callbacks are the ones the earlier *)
(* calls left.                                                             *)
(***************************************************************************)
MaxRenders == 2

RerenderInit ==
    /\ mistune_available \in BOOLEAN
    /\ \E doc \in AppDocs : ImagePaths(doc) # {} /\ env \in Envs(doc)
    /\ widget = NewText
    /\ content = <<>>
    /\ image_cache = <<>>
    /\ link_callbacks = [x \in {} |-> <<>>]
    /\ faults = <<>>
    /\ apc = "render"
    /\ md_files = <<>>
    /\ tabs = <<>>
    /\ lines = <<>>
    /\ n_done = 0
    /\ in_code_block = FALSE
    /\ rpc = "idle"
    /\ TokIdle
    /\ StorageIdle("none")

\* One call render_markdown(text_widget, content, image_cache, folder);
\* faults keeps how mistune ended in each call.
Rerender ==
    /\ apc = "render"
    /\ Len(faults) < MaxRenders
    /\ \E doc \in AppDocs :
        \E fault \in IF mistune_available THEN Faults(mistune_md(doc))
                      ELSE {NoFault} :
            LET r == render_markdown(widget, doc, mistune_md(doc), env,
                                     image_cache, link_callbacks,
                                     mistune_available, fault)
            IN  /\ content' = doc
                /\ widget' = r.widget
                /\ image_cache' = r.image_cache
                /\ link_callbacks' = r.link_callbacks
                /\ faults' = Append(faults, fault)
    /\ UNCHANGED <<mistune_available, md_files, tabs, apc, env, lines, n_done,
                   in_code_block, rpc, tokVars, storageVars>>

RerenderSpec == RerenderInit /\ [][Rerender]_vars

(***************************************************************************)
(* storage.py: pack_folder and unpack_file.  The disk is the map from the  *)
(* absolute path of each regular file to its content; a zip file is the    *)
(* map from member name to content.                                        *)
(***************************************************************************)
\* "for root, dirs, files in os.walk(folder_path): for file in files:
\* abs_file = os.path.join(root, file)": the files below the folder, at
\* any depth.
WalkFiles(files, folder) ==
    {p \in DOMAIN files : StartsWith(p, folder \o <<"/">>, 0)}

\* "[x for x in path.split(sep) if x]"
PathList(path) == SelectSeq(Split(path, "/"), LAMBDA x : x # <<>>)

\* len(commonprefix([start_list, path_list]))
RECURSIVE CommonLen(_, _)
CommonLen(a, b) ==
    IF a = <<>> \/ b = <<>> \/ Head(a) # Head(b) THEN 0
    ELSE 1 + CommonLen(Tail(a), Tail(b))

\* os.path.relpath(path, start) (posix)
RelPath(path, start) ==
    LET start_list == PathList(NormPath(start))
        path_list == PathList(NormPath(path))
        k == CommonLen(start_list, path_list)
        rel_list == [x \in 1..(Len(start_list) - k) |-> <<".", ".">>]
                        \o SubSeq(path_list, k + 1, Len(path_list))
    IN  IF rel_list = <<>> THEN <<".">> ELSE Join(rel_list, "/")

\* The name a file is archived under.
ArcName_AbsFile(abs_file, folder) == abs_file

ArcName(abs_file, folder) == RelPath(abs_file, folder)

\* str.lstrip(chars), str.rstrip(chars)
RECURSIVE LStripChars(_, _)
LStripChars(s, chars) ==
    IF s # <<>> /\ Head(s) \in chars THEN LStripChars(Tail(s), chars) ELSE s

RECURSIVE RStripChars(_, _)
RStripChars(s, chars) ==
    IF s # <<>> /\ s[Len(s)] \in chars
    THEN RStripChars(SubSeq(s, 1, Len(s) - 1), chars)
    ELSE s

\* zipf.write(abs_file, rel_path): the member name is the normalised
\* arcname without leading separators.
ZipMemberName(arcname) == LStripChars(NormPath(arcname), {"/"})

\* pack_folder: the zip file it writes.
pack_folder(files, folder) ==
    LET root == NormPath(folder)
        walked == WalkFiles(files, root)
        names == {ZipMemberName(ArcName(p, root)) : p \in walked}
    IN  [name \in names |->
            files[CHOOSE p \in walked : ZipMemberName(ArcName(p, root)) = name]]

\* zipf.extractall(extract_to): a member goes to extract_to joined with
\* its name, without the empty, "." and ".." parts of the name.
ExtractTarget(dest, name) ==
    LET parts == SelectSeq(Split(name, "/"),
                           LAMBDA x : x \notin {<<>>, <<".">>, <<".", ".">>})
    IN  PathJoin(dest, Join(parts, "/"))

\* unpack_file: the disk after it.
unpack_file(files, zip, dest) ==
    LET root == NormPath(dest)
        targets == {ExtractTarget(root, name) : name \in DOMAIN zip}
    IN  [p \in DOMAIN files \cup targets |->
            IF p \in targets
            THEN zip[CHOOSE name \in DOMAIN zip : ExtractTarget(root, name) = p]
            ELSE files[p]]

MaxDepth == 2

SrcFolder == <<"/", "s", "r", "c">>
DstFolder == <<"/", "d", "s", "t">>

\* f and g at every depth of the chain of directories src/d/d/...
SourcePaths ==
    {SrcFolder \o <<"/">>
         \o [k \in 1..(2 * depth) |-> IF k % 2 = 1 THEN "d" ELSE "/"]
         \o <<name>> :
        depth \in 0..(MaxDepth - 1), name \in {"f", "g"}}

\* The folder: some of these files, each with one of two contents.
SourceTrees == UNION {[some -> {"x", "y"}] : some \in SUBSET SourcePaths}

\* What the destination holds beforehand: nothing, a file the archive may
\* overwrite, or a file of another name.
DestTrees ==
    {[x \in {} |-> ""],
     [x \in {DstFolder \o <<"/", "f">>} |-> "old"],
     [x \in {DstFolder \o <<"/", "k">>} |-> "old"]}

PackInit ==
    /\ \E tree \in SourceTrees, dest \in DestTrees : disk_files = tree @@ dest
    /\ folder_path \in {SrcFolder, SrcFolder \o <<"/">>}
    /\ extract_to \in {DstFolder, DstFolder \o <<"/">>}
    /\ archive = [x \in {} |-> ""]
    /\ ppc = "start"
    /\ StorageIdle("pack")
    /\ TokIdle
    /\ RenderIdle
    /\ AppIdle

PackFolder ==
    /\ ppc = "start"
    /\ archive' = pack_folder(disk_files, folder_path)
    /\ ppc' = "packed"
    /\ StorageFrame({"archive", "ppc"})

UnpackFile ==
    /\ ppc = "packed"
    /\ disk_files' = unpack_file(disk_files, archive, extract_to)
    /\ ppc' = "unpacked"
    /\ StorageFrame({"disk_files", "ppc"})

PackNext == PackFolder \/ UnpackFile

PackSpec == PackInit /\ [][PackNext]_vars

(***************************************************************************)
(* storage.py: the library file.  A JSON object is modelled by whether it  *)
(* has the key "folders" and by the list under it.                         *)
(***************************************************************************)
Dict(has_folders, folders) == [has_folders |-> has_folders, folders |-> folders]

\* The file is [kind |-> "missing"], [kind |-> "corrupt"] when json.load
\* raises on it, or holds a JSON object.
JsonFile(data) == [kind |-> "json", data |-> data]

\* load_library_data: the dict it returns, and whether that dict is the
\* object DEFAULT_LIBRARY_STRUCTURE itself.
load_library_data(file, default) ==
    IF file.kind = "json"
    THEN [is_default |-> FALSE, data |-> file.data]
    ELSE [is_default |-> TRUE, data |-> default]

\* library_data.get("folders", [])
GetFolders(data) == IF data.has_folders THEN data.folders ELSE <<>>

InList(x, list) == \E k \in 1..Len(list) : list[k] = x

\* A call's effect: the file and DEFAULT_LIBRARY_STRUCTURE after it.  A
\* change made to the dict load_library_data returned is a change of
\* DEFAULT_LIBRARY_STRUCTURE when it is that object.
Stored(loaded, data, file, default, written) ==
    [file |-> IF written THEN JsonFile(data) ELSE file,
     default |-> IF loaded.is_default THEN data ELSE default]

add_folder_to_library_Unchecked(file, default, folder) ==
    LET loaded == load_library_data(file, default)
        data == Dict(TRUE, Append(GetFolders(loaded.data), folder))
    IN  Stored(loaded, data, file, default, TRUE)

add_folder_to_library(file, default, folder) ==
    LET loaded == load_library_data(file, default)
        data == Dict(TRUE, Append(GetFolders(loaded.data), folder))
    IN  IF ~InList(folder, GetFolders(loaded.data))
        THEN Stored(loaded, data, file, default, TRUE)
        ELSE Stored(loaded, loaded.data, file, default, FALSE)

clean_non_existing_folders_from_library(file, default, exists) ==
    LET loaded == load_library_data(file, default)
        folders == GetFolders(loaded.data)
        existing_folders == SelectSeq(folders, LAMBDA f : f \in exists)
    IN  IF Len(existing_folders) # Len(folders)
        THEN Stored(loaded, Dict(TRUE, existing_folders), file, default, TRUE)
        ELSE Stored(loaded, loaded.data, file, default, FALSE)

NFolders == 3

LibFolders == {<<"/a", "/b", "/c", "/d", "/e">>[k] : k \in 1..NFolders}

\* The lists of folders without a repeated entry.
LibLists ==
    {list \in UNION {[1..m -> LibFolders] : m \in 0..NFolders} :
        \A j, k \in 1..Len(list) : list[j] = list[k] => j = k}

\* The file when the program starts: missing, unreadable, an object
\* without "folders", or a library without duplicates.
LibFiles ==
    {[kind |-> "missing"], [kind |-> "corrupt"], JsonFile(Dict(FALSE, <<>>))}
        \cup {JsonFile(Dict(TRUE, list)) : list \in LibLists}

LibInit ==
    /\ library_file \in LibFiles
    /\ default_library = Dict(TRUE, <<>>)
    /\ existing \in SUBSET LibFolders
    /\ lpc = "start"
    /\ StorageIdle("library")
    /\ TokIdle
    /\ RenderIdle
    /\ AppIdle

AddFolder(folder) ==
    /\ lpc # "idle"
    /\ LET r == add_folder_to_library(library_file, default_library, folder)
       IN  /\ library_file' = r.file
           /\ default_library' = r.default
    /\ lpc' = "added"
    /\ StorageFrame({"library_file", "default_library", "lpc"})

CleanFolders ==
    /\ lpc # "idle"
    /\ LET r == clean_non_existing_folders_from_library(
                    library_file, default_library, existing)
       IN  /\ library_file' = r.file
           /\ default_library' = r.default
    /\ lpc' = "cleaned"
    /\ StorageFrame({"library_file", "default_library", "lpc"})

\* The user, or another program, deletes the library file.
RemoveLibraryFile ==
    /\ lpc # "idle"
    /\ library_file.kind # "missing"
    /\ library_file' = [kind |-> "missing"]
    /\ lpc' = "removed"
    /\ StorageFrame({"library_file", "lpc"})

\* Calls only.
LibNext == (\E folder \in LibFolders : AddFolder(folder)) \/ CleanFolders

LibSpec == LibInit /\ [][LibNext]_vars

\* Calls, and the file deleted in between.
LibEnvNext ==
    \/ \E folder \in LibFolders : AddFolder(folder)
    \/ CleanFolders
    \/ RemoveLibraryFile

LibEnvSpec == LibInit /\ [][LibEnvNext]_vars

(***************************************************************************)
(* viewer.py: MarkdownViewerApp.save_to_folder.  The dialog returns the    *)
(* empty string when the user cancels it; copytree is called for any other *)
(* answer and either returns or raises.                                    *)
(***************************************************************************)
\* self.folder, the library file and DEFAULT_LIBRARY_STRUCTURE after the
\* call.  The exception of copytree is caught and logged; the two last
\* statements of the method follow the if statement.
save_to_folder(file, default, target_dir) ==
    LET r == add_folder_to_library(file, default, target_dir)
    IN  [folder |-> target_dir, file |-> r.file, default |-> r.default]

SaveInit ==
    /\ self_folder \in {"/a", "/v"}
    /\ save_call = [target_dir |-> "", copytree |-> "start"]
    /\ library_file \in LibFiles
    /\ default_library = Dict(TRUE, <<>>)
    /\ existing = {}
    /\ lpc = "idle"
    /\ StorageIdle("save")
    /\ TokIdle
    /\ RenderIdle
    /\ AppIdle

\* The dialog returns a new folder, one of the library, or nothing; the
\* copy to a folder returns or raises.
SaveToFolder ==
    /\ save_call.copytree # "idle"
    /\ \E target_dir \in {"", "/t"} \cup LibFolders :
        \E outcome \in IF target_dir # "" THEN {"copied", "raised"}
                        ELSE {"skipped"} :
            LET r == save_to_folder(library_file, default_library, target_dir)
            IN  /\ save_call' = [target_dir |-> target_dir,
                                 copytree |-> outcome]
                /\ self_folder' = r.folder
                /\ library_file' = r.file
                /\ default_library' = r.default
    /\ StorageFrame({"self_folder", "save_call", "library_file",
                     "default_library"})

SaveSpec == SaveInit /\ [][SaveToFolder]_vars

(***************************************************************************)
(* launcher.py: the list of saved archives.                                *)
(***************************************************************************)
EXTENSION == <<"m", "d", "l", "z">>

\* str.rfind of one character: -1 when it does not occur.
RFind(s, c) ==
    LET at == {k \in 0..(Len(s) - 1) : At(s, k) = c}
    IN  IF at = {} THEN -1 ELSE CHOOSE k \in at : \A j \in at : j <= k

\* PurePath.suffix: from the last dot of the name on, unless the name
\* starts or ends with that dot.
Suffix(name) ==
    LET k == RFind(name, ".")
    IN  IF 0 < k /\ k < Len(name) - 1 THEN SliceFrom(name, k) ELSE <<>>

\* An entry of the storage directory.
Entry(name, is_file) == [name |-> name, is_file |-> is_file]

\* "[p for p in PATH_STORAGE.iterdir() if p.is_file() and p.suffix ==
\* EXTENSION]"
ListSavedFiles(dir) ==
    {p \in dir : p.is_file /\ Suffix(p.name) = EXTENSION}

NameOneMdlz == <<"o", "n", "e", ".", "m", "d", "l", "z">>
NameTwoUpper == <<"t", "w", "o", ".", "M", "D", "L", "Z">>
NameThreeTxt == <<"t", "h", "r", "e", "e", ".", "t", "x", "t">>

StorageEntries ==
    {Entry(NameOneMdlz, TRUE), Entry(NameTwoUpper, TRUE),
     Entry(NameThreeTxt, TRUE), Entry(<<"m", "d", "l", "z">>, TRUE),
     Entry(<<".", "m", "d", "l", "z">>, TRUE),
     Entry(<<"d", ".", "m", "d", "l", "z">>, FALSE),
     Entry(<<"a", ".", "b", ".", "m", "d", "l", "z">>, TRUE)}

ListInit ==
    /\ storage_dir \in SUBSET StorageEntries
    /\ all_saved_files = {}
    /\ spc = "start"
    /\ StorageIdle("list")
    /\ TokIdle
    /\ RenderIdle
    /\ AppIdle

ListSaved ==
    /\ spc = "start"
    /\ all_saved_files' = ListSavedFiles(storage_dir)
    /\ spc' = "listed"
    /\ StorageFrame({"all_saved_files", "spc"})

ListNext == ListSaved

ListSpec == ListInit /\ [][ListNext]_vars

(***************************************************************************)
(* storage.py: flatten_path.  A backslash is the character "\\".           *)
(***************************************************************************)
Letters ==
    {"A", "B", "C", "D", "E", "F", "G", "H", "I", "J", "K", "L", "M",
     "N", "O", "P", "Q", "R", "S", "T", "U", "V", "W", "X", "Y", "Z",
     "a", "b", "c", "d", "e", "f", "g", "h", "i", "j", "k", "l", "m",
     "n", "o", "p", "q", "r", "s", "t", "u", "v", "w", "x", "y", "z"}

\* re.match(r"^[A-Za-z]:[\\\\/]", path)
DriveMatch(path) ==
    /\ Len(path) >= 3
    /\ path[1] \in Letters
    /\ path[2] = ":"
    /\ path[3] \in {"\\", "/"}

_is_absolute_path(path) == StartsWith(path, <<"/">>, 0) \/ DriveMatch(path)

EndsWith(s, suffix) ==
    Len(s) >= Len(suffix) /\ SliceFrom(s, Len(s) - Len(suffix)) = suffix

\* pathlib: "for x in rel.split(sep): if x and x != '.'"
Components(rel, sep) ==
    SelectSeq(Split(rel, sep), LAMBDA x : x # <<>> /\ x # <<".">>)

\* Path(path).parts (posix) of a path that starts with "/": the root is
\* "//" after exactly two slashes and "/" otherwise.
PosixParts(path) ==
    LET stripped == LStripChars(path, {"/"})
        root == IF Len(path) - Len(stripped) = 2 THEN <<"/", "/">> ELSE <<"/">>
    IN  <<root>> \o Components(stripped, "/")

\* PureWindowsPath(path).parts of a path with a drive and a root: both
\* separators count, the first part is the drive with a backslash.
WindowsParts(path) ==
    LET part == [k \in 1..Len(path) |-> IF path[k] = "/" THEN "\\" ELSE path[k]]
        drv == SubSeq(part, 1, 2)
        rel == LStripChars(SliceFrom(part, 2), {"\\"})
    IN  <<drv \o <<"\\">>>> \o Components(rel, "\\")

\* The loop that drops the root markers.
RECURSIVE Cleaned(_)
Cleaned(parts) ==
    IF parts = <<>> THEN <<>>
    ELSE LET part == Head(parts)
         IN  (IF EndsWith(part, <<":", "\\">>) \/ EndsWith(part, <<":", "/">>)
              THEN <<RStripChars(RStripChars(part, {"\\", "/"}), {":"})>>
              ELSE IF part \in {<<"/">>, <<"\\">>} THEN <<>>
              ELSE <<part>>)
             \o Cleaned(Tail(parts))

Raised == [raised |-> TRUE, value |-> <<>>]
Returned(value) == [raised |-> FALSE, value |-> value]

flatten_path(path) ==
    IF ~_is_absolute_path(path) THEN Raised
    ELSE LET parts == IF DriveMatch(path) THEN WindowsParts(path)
                      ELSE PosixParts(path)
         IN  Returned(Join(Cleaned(parts), "_"))

MaxPath == 4

\* The paths of the tests, their names shortened to one letter.
ExamplePaths ==
    {<<"C", ":", "\\", "U", "\\", "a", "\\", "D">>,
     <<"C", ":", "/", "U", "/", "a", "/", "D">>,
     <<"C", ":", "\\", "U", "\\", "a", "\\", "D", "\\">>,
     <<"C", ":", "/", "U", "\\", "a", "/", "m", "\\", "p">>,
     <<"/", "m", "/", "h", "/", "d">>,
     <<"/", "m", "/", "h", "/", "d", "/">>,
     <<"r", "/", "p">>,
     <<".", ".", "/", "p", "/", "c">>,
     <<"C", ":", "f", "\\", "g">>}

FlattenPaths ==
    SeqsUpTo({"/", "\\", ":", ".", "C", "a", "1"}, MaxPath) \cup ExamplePaths

FlattenInit ==
    /\ path_str \in FlattenPaths
    /\ flat = Returned(<<>>)
    /\ fpc = "call"
    /\ StorageIdle("flatten")
    /\ TokIdle
    /\ RenderIdle
    /\ AppIdle

FlattenCall ==
    /\ fpc = "call"
    /\ flat' = flatten_path(path_str)
    /\ fpc' = "done"
    /\ StorageFrame({"flat", "fpc"})

FlattenNext == FlattenCall

FlattenSpec == FlattenInit /\ [][FlattenNext]_vars

(***************************************************************************)
(* Properties of tokenize_inline.                                          *)
(***************************************************************************)
\* The delimiter a token kind was written with; none for NORMAL.
Marker(type) ==
    CASE type = "INLINE_CODE" -> <<BQ>>
      [] type = "BOLD_ITALIC" -> <<"*", "*", "*">>
      [] type = "BOLD" -> <<"*", "*">>
      [] type = "ITALIC" -> <<"*">>
      [] OTHER -> <<>>

\* A token with its opening and closing delimiter put back.
Wrapped(t) == Marker(t.type) \o t.text \o Marker(t.type)

RECURSIVE Rebuild(_)
Rebuild(ts) ==
    IF ts = <<>> THEN <<>> ELSE Wrapped(Head(ts)) \o Rebuild(Tail(ts))

\* d occurs in l at the zero-based position j.
OccursAt(l, d, j) ==
    /\ j >= 0
    /\ j + Len(d) <= Len(l)
    /\ \A m \in 1..Len(d) : l[j + m] = d[m]

OccursIn(s, d) == \E j \in 0..Len(s) : OccursAt(s, d, j)

LastToken(ts) == ts[Len(ts)]

\* C1: the tokens cover the line from left to right without gap or overlap:
\* after every iteration the tokens, each with its delimiters put back,
\* spell the part of the line scanned so far, and on return the whole line.
C1_TokensCoverLine ==
    /\ i <= Len(line)
    /\ Rebuild(tokens) = SubSeq(line, 1, i)
    /\ pc = "done" => Rebuild(tokens) = line

C1_Witness ==
    /\ pc = "done"
    /\ line = LineBoldThenItalic
    /\ \E a, b \in 1..Len(tokens) :
           tokens[a].type = "NORMAL" /\ tokens[b].type = "BOLD"

\* C2: a position that starts with *** and has a closing *** later in the
\* line yields one BOLD_ITALIC token; tokenize("***x***") is [BOLD_ITALIC x]
\* and tokenize("**a**b*c*") is [BOLD a, NORMAL b, ITALIC c].
C2_LongestDelimiterFirst ==
    /\ [][(/\ pc = "loop"
           /\ i < Len(line)
           /\ OccursAt(line, <<"*", "*", "*">>, i)
           /\ \E j \in (i + 3)..Len(line) : OccursAt(line, <<"*", "*", "*">>, j))
          => /\ Len(tokens') = Len(tokens) + 1
             /\ LastToken(tokens').type = "BOLD_ITALIC"]_vars
    /\ [](pc = "done" /\ line = LineTripleX
          => tokens = <<[type |-> "BOLD_ITALIC", text |-> <<"x">>]>>)
    /\ [](pc = "done" /\ line = LineBoldThenItalic
          => tokens = << [type |-> "BOLD", text |-> <<"a">>],
                         [type |-> "NORMAL", text |-> <<"b">>],
                         [type |-> "ITALIC", text |-> <<"c">>] >>)

C2_Witness ==
    /\ pc = "done"
    /\ line = LineTripleX
    /\ Len(tokens) = 1

\* The longest of the four delimiters that starts at position k; <<>> when
\* none does.
OpenerAt(l, k) ==
    IF OccursAt(l, <<BQ>>, k) THEN <<BQ>>
    ELSE IF OccursAt(l, <<"*", "*", "*">>, k) THEN <<"*", "*", "*">>
    ELSE IF OccursAt(l, <<"*", "*">>, k) THEN <<"*", "*">>
    ELSE IF OccursAt(l, <<"*">>, k) THEN <<"*">>
    ELSE <<>>

Unclosed(l, k) ==
    LET d == OpenerAt(l, k)
    IN  /\ d # <<>>
        /\ ~\E j \in (k + Len(d))..Len(l) : OccursAt(l, d, j)

\* C3: when the delimiter that opens at the scan position has no closing
\* delimiter of its length in the rest of the line, the iteration emits the
\* delimiter character as a NORMAL token and advances by one.
C3_UnclosedDelimiterIsLiteral ==
    [][(pc = "loop" /\ i < Len(line) /\ Unclosed(line, i))
       => /\ tokens' = Append(tokens, [type |-> "NORMAL", text |-> <<line[i + 1]>>])
          /\ i' = i + 1]_vars

LineCodeWithStars == <<BQ, "*", "a", "*", BQ>>

\* C4: the text of a token that is not NORMAL is the part of the line
\* strictly between the delimiter at the scan position and the nearest
\* later delimiter of the same length; it is one token, whatever it holds,
\* and does not hold its own delimiter.
C4_InteriorVerbatim ==
    /\ [][(pc = "loop" /\ i < Len(line))
          => LET t == LastToken(tokens')
                 d == Marker(t.type)
                 m == Len(d)
                 close == i' - m
             IN  /\ Len(tokens') = Len(tokens) + 1
                 /\ t.type # "NORMAL"
                    => /\ close >= i + m
                       /\ OccursAt(line, d, i)
                       /\ OccursAt(line, d, close)
                       /\ \A j \in (i + m)..(close - 1) : ~OccursAt(line, d, j)
                       /\ t.text = SubSeq(line, i + m + 1, close)
                       /\ ~OccursIn(t.text, d)]_vars
    /\ [](pc = "done" /\ line = LineCodeWithStars
          => tokens = <<[type |-> "INLINE_CODE", text |-> <<"*", "a", "*">>]>>)

C4_Witness ==
    /\ pc = "done"
    /\ line = LineCodeWithStars
    /\ Len(tokens) = 1
    /\ tokens[1].type = "INLINE_CODE"

\* C5: tokenize_inline terminates without error on every line: each
\* iteration moves the scan position forward, the function returns with the
\* position at or past the end of the line, and the empty line gives no
\* token.
C5_TotalAndTerminates ==
    /\ [][(pc = "loop" /\ i < Len(line)) => i' > i]_vars
    /\ [](pc # "error")
    /\ [](pc = "done" => i >= Len(line))
    /\ [](pc = "done" /\ line = <<>> => tokens = <<>>)
    /\ <>(pc = "done")

C5_Witness ==
    /\ pc = "done"
    /\ i = Len(line)
    /\ Len(tokens) > 0
    /\ Len(tokens) < Len(line)

(***************************************************************************)
(* Properties of render_markdown_raw.                                      *)
(***************************************************************************)
\* The for loop is about to handle a line; CurLine is that line.
AtLine == rpc = "lines" /\ n_done < Len(lines)

CurLine == lines[n_done + 1]

Trimmed == Strip(CurLine)

IsFenceLine(l) == OccursAt(Strip(l), <<BQ, BQ, BQ>>, 0)

\* What a step inserted into the widget; <<>> when it removed something.
Appended ==
    IF /\ Len(widget'.segs) >= Len(widget.segs)
       /\ SubSeq(widget'.segs, 1, Len(widget.segs)) = widget.segs
    THEN SubSeq(widget'.segs, Len(widget.segs) + 1, Len(widget'.segs))
    ELSE <<>>

RECURSIVE FlatText(_)
FlatText(segs) ==
    IF segs = <<>> THEN <<>> ELSE Head(segs).text \o FlatText(Tail(segs))

RECURSIVE TokenText(_)
TokenText(toks) ==
    IF toks = <<>> THEN <<>> ELSE Head(toks).text \o TokenText(Tail(toks))

Plain(text) ==
    [kind |-> "text", text |-> text, tags |-> {}, link |-> {}, image |-> NoImage]

Tagged(text, tag) ==
    [kind |-> "text", text |-> text, tags |-> {tag}, link |-> {}, image |-> NoImage]

\* C6: inside a code block a line that is no fence is inserted as it is,
\* unstripped, tagged codeblock, with one newline, and nothing else happens;
\* the document ```, **a**, ``` shows **a** as code and not as a bold span.
C6_CodeLinesVerbatim ==
    /\ [][(AtLine /\ in_code_block /\ ~IsFenceLine(CurLine))
          => /\ Appended = <<Tagged(CurLine \o <<"\n">>, "codeblock")>>
             /\ in_code_block'
             /\ UNCHANGED <<image_cache, link_callbacks>>]_vars
    /\ [](rpc = "done" /\ content = DocFencedBold
          => widget.segs = << Tagged(<<"\n">>, "codeblock"),
                              Tagged(<<"*", "*", "a", "*", "*", "\n">>, "codeblock"),
                              Tagged(<<"\n">>, "codeblock") >>)

C6_Witness ==
    /\ rpc = "done"
    /\ content = DocFencedBold
    /\ Len(widget.segs) = 3
    /\ widget.segs[2].tags = {"codeblock"}
    /\ OccursIn(widget.segs[2].text, <<"*", "*">>)

RECURSIVE FenceCount(_, _)
FenceCount(ls, n) ==
    IF n = 0 THEN 0
    ELSE FenceCount(ls, n - 1) + (IF IsFenceLine(ls[n]) THEN 1 ELSE 0)

\* C7: a line whose trimmed text starts with ``` toggles in_code_block and
\* inserts one codeblock-tagged newline and nothing else; so in_code_block
\* is true exactly after an odd number of fence lines.
C7_FenceToggles ==
    /\ [][(AtLine /\ IsFenceLine(CurLine))
          => /\ Appended = <<Tagged(<<"\n">>, "codeblock")>>
             /\ in_code_block' = ~in_code_block
             /\ UNCHANGED <<image_cache, link_callbacks>>]_vars
    /\ [](rpc \in {"lines", "done"}
          => (in_code_block <=> FenceCount(lines, n_done) % 2 = 1))

C7_Witness ==
    /\ rpc = "done"
    /\ Len(lines) = 2
    /\ IsFenceLine(lines[1])
    /\ ~IsFenceLine(lines[2])
    /\ lines[2] # <<>>
    /\ in_code_block
    /\ widget.segs[Len(widget.segs)].tags = {"codeblock"}

Hashes(n) == [x \in 1..n |-> "#"]

\* C8: outside a code block a trimmed line that starts with "### " is
\* inserted without the marker under h3, "## " under h2, "# " under h1; a
\* line of one to three # and nothing else is no heading: it is inserted
\* as a paragraph, character by character, untagged.
C8_HeadingLevels ==
    [][(AtLine /\ ~in_code_block)
       => /\ \A n \in 1..3 :
                 OccursAt(Trimmed, Hashes(n) \o <<" ">>, 0)
                 => Appended =
                        <<Tagged(SubSeq(Trimmed, n + 2, Len(Trimmed)) \o <<"\n">>,
                                 HeadingTag(n))>>
          /\ \A n \in 1..3 :
                 Trimmed = Hashes(n)
                 => /\ FlatText(Appended) = CurLine \o <<"\n">>
                    /\ \A j \in 1..Len(Appended) : Appended[j].tags = {}]_vars

C8_Witness ==
    /\ rpc = "lines"
    /\ n_done = 1
    /\ lines[1] = <<" ", "#", "#", "#", " ", "a">>
    /\ widget.segs = <<Tagged(<<"a", "\n">>, "h3")>>

\* C9: a heading's text is inserted as the inline tokenizer gives it (the
\* delimiters consumed), all of it under the heading's tag, followed by one
\* newline.
C9_HeadingTokenized ==
    [][(AtLine /\ ~in_code_block)
       => \A n \in 1..3 :
              OccursAt(Trimmed, Hashes(n) \o <<" ">>, 0)
              => /\ FlatText(Appended) =
                        TokenText(tokenize_inline(SubSeq(Trimmed, n + 2, Len(Trimmed))))
                            \o <<"\n">>
                 /\ \A j \in 1..Len(Appended) : HeadingTag(n) \in Appended[j].tags]_vars

IsImageLine(l) == ImageMatch(Strip(l)).found

CurImagePath == ResolveImagePath(env.base, ImageMatch(Trimmed).url)

Decodable(path) ==
    \/ FileKind(env, path) = "tk"
    \/ FileKind(env, path) = "pil" /\ env.pil

\* C10: an image line outside a code block: a path that does not exist
\* gives "[Image not found: <path>]" and leaves the image cache as it is; a
\* file no available decoder reads gives "[Unsupported image format:
\* <path>]" and leaves the cache as it is; a decoded file adds one handle
\* to the cache and one image to the widget.  A newline follows in every
\* case and the loop goes on.  ./p resolves against base_folder /d to /d/p.
C10_ImageOutcomes ==
    [][(AtLine /\ ~in_code_block /\ ~IsFenceLine(CurLine) /\ IsImageLine(CurLine))
       => /\ rpc' = "lines"
          /\ n_done' = n_done + 1
          /\ UNCHANGED link_callbacks
          /\ FileKind(env, CurImagePath) = "absent"
             => /\ Appended = << Plain(<<"[Image not found: ">> \o CurImagePath
                                       \o <<"]", "\n">>),
                                 Plain(<<"\n">>) >>
                /\ UNCHANGED image_cache
          /\ (FileKind(env, CurImagePath) # "absent" /\ ~Decodable(CurImagePath))
             => /\ Appended = << Plain(<<"[Unsupported image format: ">>
                                       \o CurImagePath \o <<"]", "\n">>),
                                 Plain(<<"\n">>) >>
                /\ UNCHANGED image_cache
          /\ Decodable(CurImagePath)
             => /\ Len(image_cache') = Len(image_cache) + 1
                /\ SubSeq(image_cache', 1, Len(image_cache)) = image_cache
                /\ image_cache'[Len(image_cache')].path = CurImagePath
                /\ Appended = << ImageSeg(image_cache'[Len(image_cache')]),
                                 Plain(<<"\n">>) >>
          /\ ImageMatch(Trimmed).url = <<".", "/", "p">>
             => CurImagePath = <<"/", "d", "/", "p">>]_vars

C10_Witness ==
    /\ rpc = "done"
    /\ Len(lines) = 2
    /\ IsImageLine(lines[1])
    /\ IsImageLine(lines[2])
    /\ Len(widget.segs) = 4
    /\ widget.segs[1].kind = "image"
    /\ widget.segs[1].image.decoder = "pil"
    /\ widget.segs[3] = Plain(<<"[Image not found: ", "/", "q", "]", "\n">>)

IsParagraphLine(l) ==
    /\ ~IsFenceLine(l)
    /\ ~IsImageLine(l)
    /\ \A n \in 1..3 : ~OccursAt(Strip(l), Hashes(n) \o <<" ">>, 0)

\* The urls of the links of a line, from position pos on, left to right.
RECURSIVE LinkUrls(_, _)
LinkUrls(l, pos) ==
    LET m == NextLink(l, pos)
    IN  IF m.found THEN <<m.url>> \o LinkUrls(l, m.end) ELSE <<>>

\* One run per token; a token without text leaves no run.
RECURSIVE TokenRuns(_)
TokenRuns(toks) ==
    IF toks = <<>> THEN <<>>
    ELSE (IF Head(toks).text = <<>> THEN <<>>
          ELSE <<[kind |-> "text", text |-> Head(toks).text,
                  tags |-> TokenTags(Head(toks).type), link |-> {},
                  image |-> NoImage]>>)
         \o TokenRuns(Tail(toks))

LinkRun(text, n) ==
    IF text = <<>> THEN <<>>
    ELSE <<[kind |-> "text", text |-> text, tags |-> {"hyperlink"},
            link |-> {n}, image |-> NoImage]>>

\* What a paragraph line puts into the widget when its first link from pos
\* on gets the tag hyperlink_<n>, the next one hyperlink_<n+1>, and so on.
RECURSIVE ExpectedParagraph(_, _, _)
ExpectedParagraph(l, pos, n) ==
    LET m == NextLink(l, pos)
    IN  IF m.found
        THEN TokenRuns(tokenize_inline(Slice(l, pos, m.start)))
                 \o LinkRun(m.text, n)
                 \o ExpectedParagraph(l, m.end, n + 1)
        ELSE TokenRuns(tokenize_inline(SliceFrom(l, pos))) \o <<Plain(<<"\n">>)>>

\* C11: a paragraph line with links inserts, left to right, the tokenized
\* text before each link, the link's text as a hyperlink run tagged
\* hyperlink_<n> with n the size of the callback table at that moment, and
\* the tokenized text after the last link; each link adds one new key to
\* the table, mapped to its url, and the keys it had keep their values.
\* [a](u1) mid [b](u2) gives link a -> u1, " mid ", link b -> u2.
C11_LinksInOrderDistinctTags ==
    /\ [][(AtLine /\ ~in_code_block /\ IsParagraphLine(CurLine))
          => LET old == DOMAIN link_callbacks
                 n0 == Cardinality(old)
                 urls == LinkUrls(CurLine, 0)
                 new == {n0 + j - 1 : j \in 1..Len(urls)}
             IN  /\ Appended = ExpectedParagraph(CurLine, 0, n0)
                 /\ new \cap old = {}
                 /\ DOMAIN link_callbacks' = old \cup new
                 /\ \A key \in old : link_callbacks'[key] = link_callbacks[key]
                 /\ \A j \in 1..Len(urls) : link_callbacks'[n0 + j - 1] = urls[j]
                 /\ UNCHANGED image_cache]_vars
    /\ [](rpc = "done" /\ content = DocTwoLinks
          => \E n \in {0, 1} :
                 /\ widget.segs =
                        LinkRun(<<"a">>, n)
                        \o <<Plain(<<" ">>), Plain(<<"m">>), Plain(<<"i">>),
                             Plain(<<"d">>), Plain(<<" ">>)>>
                        \o LinkRun(<<"b">>, n + 1)
                        \o <<Plain(<<"\n">>)>>
                 /\ link_callbacks[n] = <<"u", "1">>
                 /\ link_callbacks[n + 1] = <<"u", "2">>)

C11_Witness ==
    /\ rpc = "done"
    /\ content = DocTwoLinks
    /\ DOMAIN link_callbacks = {0, 1, 2}
    /\ widget.segs[1].link = {1}
    /\ widget.segs[7].link = {2}

(***************************************************************************)
(* Properties of render_markdown and of the viewer's loop over its files.  *)
(***************************************************************************)
\* The step that opens one more tab, and the document it renders.
OpensTab == Len(tabs') = Len(tabs) + 1

TabDoc == md_files[Len(tabs) + 1]

\* C12: when mistune is available but raises on a document, in the parser
\* or while visiting the tree, render_markdown falls back to the raw
\* renderer for the whole document: the widget then holds the complete
\* raw rendering of the content, not an empty or a partial one.
C12_FallbackOnMistuneError ==
    [][(OpensTab /\ mistune_available /\ faults'[Len(tabs')].kind # "none")
       => tabs'[Len(tabs')] =
              render_markdown_raw(NewText, TabDoc, env, image_cache,
                                  link_callbacks).widget]_vars

\* C13: rendering the same document text with the same base folder twice
\* gives the same output both times, the hyperlink tags hyperlink_<n> of
\* its links included.
C13_SameTextSameOutput ==
    \A j, k \in 1..Len(tabs) :
        (md_files[j] = md_files[k] /\ faults[j] = NoFault /\ faults[k] = NoFault)
            => tabs[j] = tabs[k]

\* The image cache and the callback table the k-th tab was rendered with:
\* load_markdown_files passes self.image_cache for every tab, and the
\* renderers use the module's link_callbacks.
TabImageCache(k) == image_cache

TabLinkCallbacks(k) == link_callbacks

\* C14: every tab has its own image cache and callback table: rendering
\* one document leaves those of every other open document unchanged.
C14_TabsHaveOwnStores ==
    [][OpensTab
       => \A k \in 1..Len(tabs) :
              /\ TabImageCache(k)' = TabImageCache(k)
              /\ TabLinkCallbacks(k)' = TabLinkCallbacks(k)]_vars

\* C15: a render starts with caches that hold nothing of an earlier
\* render, so the sizes of the image cache and of the callback table after
\* a render are those of the document rendered alone.
C15_RenderStartsWithEmptyCaches ==
    [][OpensTab
       => /\ image_cache = <<>>
          /\ DOMAIN link_callbacks = {}
          /\ LET alone == render_markdown(NewText, TabDoc, mistune_md(TabDoc), env,
                                          <<>>, [x \in {} |-> <<>>],
                                          mistune_available, faults'[Len(tabs')])
             IN  /\ Len(image_cache') = Len(alone.image_cache)
                 /\ DictLen(link_callbacks') = DictLen(alone.link_callbacks)]_vars

(***************************************************************************)
(* Properties of the storage helpers.                                      *)
(***************************************************************************)
\* A file's path below the source folder: what follows "/src/".
BelowSource(p) == SliceFrom(p, Len(SrcFolder) + 1)

SourceFiles == {p \in DOMAIN disk_files : OccursAt(p, SrcFolder \o <<"/">>, 0)}

\* C16: pack_folder then unpack_file reproduces every file of the folder,
\* at any depth: the destination has a file at the same relative path with
\* the same content; and the members of the archive are named by relative
\* paths, not absolute ones.
C16_PackUnpackRoundTrip ==
    /\ ppc \in {"packed", "unpacked"}
           => /\ DOMAIN archive = {BelowSource(p) : p \in SourceFiles}
              /\ \A p \in SourceFiles : archive[BelowSource(p)] = disk_files[p]
              /\ \A name \in DOMAIN archive : name # <<>> /\ Head(name) # "/"
    /\ ppc = "unpacked"
           => \A p \in SourceFiles :
                  LET q == DstFolder \o <<"/">> \o BelowSource(p)
                  IN  q \in DOMAIN disk_files /\ disk_files[q] = disk_files[p]

C16_Witness ==
    /\ ppc = "unpacked"
    /\ SrcFolder \o <<"/", "d", "/", "f">> \in DOMAIN disk_files
    /\ SrcFolder \o <<"/", "f">> \in DOMAIN disk_files
    /\ disk_files[SrcFolder \o <<"/", "f">>] = "y"
    /\ disk_files[DstFolder \o <<"/", "d", "/", "f">>] = "x"
    /\ disk_files[DstFolder \o <<"/", "f">>] = "y"
    /\ folder_path = SrcFolder \o <<"/">>

\* The folders list the library file holds.
Persisted ==
    IF library_file.kind = "json" THEN GetFolders(library_file.data) ELSE <<>>

NoDuplicates(list) == \A j, k \in 1..Len(list) : list[j] = list[k] => j = k

\* C17: from a library without duplicates, after any sequence of
\* add_folder_to_library and clean_non_existing_folders_from_library calls
\* the persisted folders list has no duplicate entry: adding a folder that
\* is absent appends it once and writes the file, adding one that is
\* present changes nothing.
C17_NoDuplicateFolders ==
    /\ [](NoDuplicates(Persisted))
    /\ [][\A folder \in LibFolders :
              AddFolder(folder)
                  => IF InList(folder, Persisted)
                     THEN UNCHANGED <<library_file, default_library>>
                     ELSE /\ library_file'.kind = "json"
                          /\ Persisted' = Append(Persisted, folder)]_vars

C17_Witness ==
    /\ lpc = "added"
    /\ Persisted = <<"/b", "/a">>
    /\ default_library = Dict(TRUE, <<"/b">>)

\* C18: whenever the library file does not exist, load_library_data
\* returns the empty library {"folders": []}, also after calls of
\* add_folder_to_library made while the file was missing or unreadable and
\* after the file has been removed again.
C18_MissingFileLoadsEmpty ==
    library_file.kind = "missing"
        => load_library_data(library_file, default_library).data = Dict(TRUE, <<>>)

\* C19: the list of saved archives is exactly the regular files of the
\* storage directory whose suffix is .mdlz in lower case: one.mdlz is
\* listed, two.MDLZ and three.txt are not.
C19_ListsLowerCaseMdlzFiles ==
    spc = "listed"
        => /\ all_saved_files =
                  {p \in storage_dir :
                      p.is_file /\ Suffix(p.name) = <<".", "m", "d", "l", "z">>}
           /\ \A p \in storage_dir :
                  /\ p.name = NameOneMdlz /\ p.is_file => p \in all_saved_files
                  /\ p.name \in {NameTwoUpper, NameThreeTxt} => p \notin all_saved_files

\* The pieces of s between characters of seps, the empty ones and "."
\* left out.
RECURSIVE Pieces(_, _, _)
Pieces(s, seps, cur) ==
    LET done == IF cur = <<>> \/ cur = <<".">> THEN <<>> ELSE <<cur>>
    IN  IF s = <<>> THEN done
        ELSE IF Head(s) \in seps THEN done \o Pieces(Tail(s), seps, <<>>)
        ELSE Pieces(Tail(s), seps, Append(cur, Head(s)))

HasDrive(path) ==
    Len(path) >= 3 /\ path[1] \in Letters /\ path[2] = ":" /\ path[3] \in {"/", "\\"}

\* The components after the root: of a path with a drive, the drive letter
\* and what either separator delimits; of a path with a leading slash,
\* what the slashes delimit.
NonRootComponents(path) ==
    IF HasDrive(path)
    THEN <<<<path[1]>>>> \o Pieces(SliceFrom(path, 2), {"/", "\\"}, <<>>)
    ELSE Pieces(path, {"/"}, <<>>)

\* C20: flatten_path raises for every path that is not absolute (no
\* leading / and no drive prefix followed by a separator; "", ".", ".."
\* and C:relative among them), and for an absolute path returns its
\* non-root components joined by "_", in order, the drive letter without
\* its colon, separators and trailing separators removed; "/" gives "".
C20_FlattenPath ==
    fpc = "done"
        => IF Head(path_str \o <<"x">>) = "/" \/ HasDrive(path_str)
           THEN flat = Returned(Join(NonRootComponents(path_str), "_"))
           ELSE flat.raised

\* C22: when render_markdown returns, whether mistune rendered the
\* document, mistune raised, or the raw renderer ran, the widget is
\* disabled and holds the rendering of the given document and nothing
\* else: what the call gives on an empty widget when mistune does not
\* raise.
C22_DisabledAndOnlyThisDocument ==
    [][Rerender =>
        /\ widget'.state = "disabled"
        /\ widget'.segs =
               render_markdown(NewText, content', mistune_md(content'), env,
                               image_cache, link_callbacks, mistune_available,
                               NoFault).widget.segs]_vars

\* C21: a call of save_to_folder whose dialog is cancelled, or whose copy
\* fails, leaves the viewer's folder and the library file as they were; a
\* call whose copy succeeds makes the destination the viewer's folder and
\* a folder of the library.
C21_SaveOnlyAfterCopy ==
    [][SaveToFolder =>
        IF save_call'.copytree = "copied"
        THEN /\ self_folder' = save_call'.target_dir
             /\ InList(self_folder', Persisted')
        ELSE /\ self_folder' = self_folder
             /\ library_file' = library_file]_vars

====
